---- MODULE Spec2Model ----
(***************************************************************************)
(* State machine of one ModBus bridge of src/modbus-proxy/src/             *)
(* modbus_proxy.py with a TCP upstream (modbus_type = "tcp"): the          *)
(* listener, the client sessions (handle_client), the asyncio.Lock around  *)
(* write_read, the upstream reader/writer pair, the unit-ID remapping      *)
(* dictionary and stop().                                                  *)
(*                                                                         *)
(* One action is one run of a coroutine from one suspension point (await)  *)
(* to the next.  The environment (clients, the Modbus device, the network, *)
(* the timeout clock) is nondeterministic.                                 *)
(***************************************************************************)
EXTENDS Integers, Sequences, FiniteSets, TLC

\* ------------------------------------------------------------- bounds
Sessions == {1, 2}          \* client connections the listener may accept
MaxReq == 2                 \* requests a client sends on one connection
MaxConn == 2                \* upstream connections opened in one run

\* ---------------------------------------------------- program constants
Attempts == 2               \* write_read(self, data, attempts=2)

\* Unit identifiers the clients put in their requests: 0x11 and 0x22.
UnitIds == {17, 34}

\* The configurations a bridge is built from: unit_id_remapping as an
\* insertion-ordered sequence of <<key, value>> pairs (a Python dict) and
\* modbus["connection_time"] in seconds.  The dictionaries are none,
\* {0x11: 0x22} and the non-injective {0x11: 0x22, 0x13: 0x22};
\* ModBus.__init__ takes any of them.
Configs ==
    { [unit_id_remapping |-> << >>, connection_time |-> 0],
      [unit_id_remapping |-> << <<17, 34>> >>, connection_time |-> 1],
      [unit_id_remapping |-> << <<17, 34>>, <<19, 34>> >>,
       connection_time |-> 0] }

Conns == 1..MaxConn

NoConn == 0
NoSession == 0
NoFrame == [origin |-> <<0, 0>>, att |-> 0, uid |-> 0]

\* ------------------------------------------------------ frames as bytes
UnitIdIndex == 6            \* uid = request[6]

\* A Modbus TCP frame: transaction-ID, protocol-ID, length (of what follows
\* it), unit-ID, PDU.
Frame(tid, uid, pdu) == <<0, tid, 0, 0, 0, 1 + Len(pdu), uid>> \o pdu

\* Unit identifiers in the frames: 0x11, 0x13 and 0x22.
FrameUnitIds == UnitIds \cup {19}

\* PDUs: function code and data.
Pdus == { <<3, 0, 1>>, <<6>> }

TransactionIds == {1, 2}

Frames ==
    { Frame(tid, uid, pdu) : tid \in TransactionIds, uid \in FrameUnitIds,
                             pdu \in Pdus }

NoBytes == << >>

VARIABLES
    config,             \* config["unit_id_remapping"] as given to __init__
    connection_time,    \* self.connection_time
    unit_id_remapping,  \* self.unit_id_remapping (a dict, insertion ordered)
    server,             \* self.server: "none", "serving", "closed"
    stop,               \* position of the stop() coroutine
    lock,               \* self.lock: the session holding it, or NoSession
    waiters,            \* self.lock._waiters, first come first
    arrived,            \* the sessions inside write_read, in the order they
                        \* called it
    link,               \* self.reader/self.writer: a connection or NoConn
    conn,               \* each upstream connection: unused, open, eof (the
                        \* device closed it), closing (writer.close() called),
                        \* closed (connection lost, wait_closed() is over)
    using,              \* the connection connect() gave the current attempt
    call_close,         \* the connection whose close the lock holder awaits
    stop_close,         \* the connection whose close stop() awaits
    nconn,              \* upstream connections opened so far
    settles,            \* per connection: settle delays that have elapsed on it
    pending,            \* per connection: requests the device has not answered
    inbuf,              \* per connection: reply frames in the stream reader
    failedOn,           \* connections that were self.writer when an attempt failed
    pc,                 \* each session's position in handle_client
    request_count,      \* Client.request_count
    request,            \* the request the session read last
    attempt,            \* the loop variable i of write_read
    upWrites,           \* upstream writes made by the current write_read call
    reply,              \* what write_read returned to the session
    outcome,            \* how the session's last write_read ended
    delivered,          \* the frame last written to the client
    replies,            \* frames written to the client so far
    read_end,           \* how the session's client.read() met the end of the
                        \* stream, "none" while it has not
    client_request,     \* handle_client: the bytes client.read() returned
    upstream_request,   \* the bytes handed to write_read
    device_reply,       \* the bytes write_read returned
    client_reply,       \* the bytes handed to client.write
    serial_open,        \* RTU upstream: serial_reader/serial_writer are set
    serial_reader,      \* RTU upstream: the bytes buffered at the serial reader
    function_code,      \* the function code the last _read_rtu met (0: none)
    rtu_error,          \* the exception that ended the last RTU attempt
    rtu_reply           \* the frame the last RTU write_read returned

vars == <<config, connection_time, unit_id_remapping, server, stop, lock,
          waiters, arrived, link, conn, using, call_close, stop_close, nconn,
          settles, pending, inbuf, failedOn, pc,
          request_count, request, attempt, upWrites, reply, outcome,
          delivered, replies, read_end, client_request, upstream_request,
          device_reply, client_reply, serial_open, serial_reader,
          function_code, rtu_error, rtu_reply>>

bridgeVars == <<config, connection_time, server, stop>>
remapVars == <<unit_id_remapping>>
gateVars == <<lock, waiters, arrived>>
wireVars == <<link, conn, call_close, stop_close, nconn, settles, pending, inbuf,
              failedOn>>
linkVars == <<wireVars, using>>
clientVars == <<request_count, request, delivered, replies, read_end>>
callVars == <<attempt, upWrites, reply, outcome>>
frameVars == <<client_request, upstream_request, device_reply, client_reply>>
rtuVars == <<serial_open, serial_reader, function_code, rtu_error, rtu_reply>>

\* ------------------------------------------------ the remapping dictionary

HasKey(m, k) == \E i \in 1..Len(m) : m[i][1] = k

Lookup(m, k) == m[CHOOSE i \in 1..Len(m) : m[i][1] = k][2]

\* dict.setdefault(k, d): inserts k -> d at the end when k is missing.
setdefault(m, k, d) == IF HasKey(m, k) THEN m ELSE Append(m, <<k, d>>)

\* {v: k for k, v in m.items()}: of two keys with one value the later wins.
HasValue(m, v) == \E i \in 1..Len(m) : m[i][2] = v

LastWith(m, v) ==
    CHOOSE i \in 1..Len(m) :
        /\ m[i][2] = v
        /\ \A j \in 1..Len(m) : m[j][2] = v => j <= i

inverse_unit_id_map(m, v) == IF HasValue(m, v) THEN m[LastWith(m, v)][1] ELSE v

\* A _transform_request that sends a unit-ID it has no entry for to 0.
transform_request_default_zero(uid, m) ==
    LET m2 == setdefault(m, uid, 0)
    IN  [map |-> m2, uid |-> Lookup(m2, uid)]

\* _transform_request: the dictionary after the call and the unit-ID sent on.
transform_request(uid, m) ==
    LET m2 == setdefault(m, uid, uid)
    IN  [map |-> m2, uid |-> Lookup(m2, uid)]

\* _transform_reply: the unit-ID written to the client.
transform_reply(uid, m) == inverse_unit_id_map(m, uid)

Injective(m) ==
    \A i, j \in 1..Len(m) : m[i][2] = m[j][2] => i = j

\* _transform_request on the bytes of a frame: the dictionary after the call
\* and the frame sent on, a copy with byte 6 rewritten when the unit-ID
\* changes and the frame itself otherwise.
transform_request_frame(f, m) ==
    LET uid == f[UnitIdIndex + 1]
        tr == transform_request(uid, m)
    IN  [map |-> tr.map,
         frame |-> IF uid # tr.uid
                   THEN [f EXCEPT ![UnitIdIndex + 1] = tr.uid]
                   ELSE f]

\* _transform_reply on the bytes of a frame.
transform_reply_frame(f, m) ==
    LET uid == f[UnitIdIndex + 1]
        new_uid == transform_reply(uid, m)
    IN  IF uid # new_uid THEN [f EXCEPT ![UnitIdIndex + 1] = new_uid] ELSE f

\* ------------------------------------------------------ the upstream link

\* Connection.opened, TCP branch: writer set, not closing, reader not at EOF
\* (at_eof() is "EOF fed and buffer empty").
openedOn(l, cn, ib) ==
    /\ l # NoConn
    /\ cn[l] \notin {"closing", "closed"}
    /\ ~(cn[l] = "eof" /\ ib[l] = << >>)

opened == openedOn(link, conn, inbuf)

\* ModBus.connect, up to its first suspension: with the link opened it
\* returns and _write_read is started; otherwise open() is awaited.
connect(isOpened) == IF isOpened THEN "write" ELSE "opening"

\* What connect() leaves the attempt with: the link when it is opened, and
\* otherwise nothing until open() has assigned a new one.
connected(l, cn, ib) == IF openedOn(l, cn, ib) THEN l ELSE NoConn

\* writer.close() of Connection.close on connection c: the transport starts
\* closing (a second close() of it changes nothing) and what it buffered is
\* gone.
CloseWriter(c) ==
    /\ conn' = [conn EXCEPT ![c] = IF @ = "closed" THEN @ ELSE "closing"]
    /\ pending' = [pending EXCEPT ![c] = << >>]
    /\ inbuf' = [inbuf EXCEPT ![c] = << >>]

\* The link stops referring to connection d without a close(): an assignment
\* overwrites reader and writer.  What becomes of a connection that was not
\* closed is the interpreter's business: the StreamWriter of CPython from
\* 3.11.5 on closes its transport when it is collected (fin), older ones
\* leave the socket open.
Finalizers(d) ==
    IF d # NoConn /\ conn[d] \in {"open", "eof"} THEN BOOLEAN ELSE {FALSE}

Dropped(f, d, fin) == IF fin THEN [f EXCEPT ![d] = << >>] ELSE f

\* A lock that never reports itself taken.
Locked_never == FALSE

\* asyncio.Lock.locked()
Locked == lock # NoSession

Body == {"opening", "settle", "write", "readup", "closing"}

\* write_read returns to session s.
Leave(s) == SelectSeq(arrived, LAMBDA x : x # s)

\* ------------------------------------------------------------------ Init

Init ==
    /\ \E cfg \in Configs :
           /\ config = cfg.unit_id_remapping
           /\ connection_time = cfg.connection_time
    /\ unit_id_remapping = config
    /\ server = "none"
    /\ stop = "idle"
    /\ lock = NoSession
    /\ waiters = << >>
    /\ arrived = << >>
    /\ link = NoConn
    /\ conn = [c \in Conns |-> "unused"]
    /\ using = NoConn
    /\ call_close = NoConn
    /\ stop_close = NoConn
    /\ nconn = 0
    /\ settles = [c \in Conns |-> 0]
    /\ pending = [c \in Conns |-> << >>]
    /\ inbuf = [c \in Conns |-> << >>]
    /\ failedOn = {}
    /\ pc = [s \in Sessions |-> "idle"]
    /\ request_count = [s \in Sessions |-> 0]
    /\ request = [s \in Sessions |-> NoFrame]
    /\ attempt = [s \in Sessions |-> 0]
    /\ upWrites = [s \in Sessions |-> 0]
    /\ reply = [s \in Sessions |-> NoFrame]
    /\ outcome = [s \in Sessions |-> "none"]
    /\ delivered = [s \in Sessions |-> NoFrame]
    /\ replies = [s \in Sessions |-> 0]
    /\ read_end = [s \in Sessions |-> "none"]
    /\ client_request = NoBytes
    /\ upstream_request = NoBytes
    /\ device_reply = NoBytes
    /\ client_reply = NoBytes
    /\ serial_open = FALSE
    /\ serial_reader = NoBytes
    /\ function_code = 0
    /\ rtu_error = "none"
    /\ rtu_reply = NoBytes

\* --------------------------------------------------------------- listener

\* ModBus.start: asyncio.start_server(..., start_serving=True).
Start ==
    /\ server = "none"
    /\ server' = "serving"
    /\ UNCHANGED <<config, connection_time, stop, remapVars, frameVars, rtuVars, gateVars,
                   linkVars, pc, clientVars, callVars>>

\* The server accepts a client and starts handle_client for it.
Accept(s) ==
    /\ server = "serving"
    /\ pc[s] = "idle"
    /\ pc' = [pc EXCEPT ![s] = "read"]
    /\ UNCHANGED <<bridgeVars, remapVars, frameVars, rtuVars, gateVars, linkVars, clientVars,
                   callVars>>

\* ------------------------------------------------------------ write_read

\* A loop that goes on to the next request ("continue") when no reply came.
next_step_continue(got_reply) == IF got_reply THEN "reply" ELSE "read"

\* handle_client after write_read returned: "if not reply: break", else the
\* reply is written to the client.
next_step(got_reply) == IF got_reply THEN "reply" ELSE "done"

\* A for loop that runs one attempt too many.
Retry_once_more(s) ==
    IF attempt[s] + 1 <= Attempts
    THEN /\ attempt' = [attempt EXCEPT ![s] = @ + 1]
         /\ pc' = [pc EXCEPT ![s] = connect(openedOn(link', conn', inbuf'))]
         /\ using' = connected(link', conn', inbuf')
         /\ UNCHANGED <<lock, arrived, outcome>>
    ELSE /\ pc' = [pc EXCEPT ![s] = "done"]
         /\ using' = NoConn
         /\ lock' = NoSession
         /\ arrived' = Leave(s)
         /\ outcome' = [outcome EXCEPT ![s] = "failure"]
         /\ UNCHANGED attempt

\* A loop that retries until an attempt succeeds.
Retry_forever(s) ==
    /\ pc' = [pc EXCEPT ![s] = connect(openedOn(link', conn', inbuf'))]
    /\ using' = connected(link', conn', inbuf')
    /\ UNCHANGED <<lock, arrived, attempt, outcome>>

\* The end of one failed attempt, after close(): the for loop goes on to the
\* next attempt, or is exhausted, write_read returns None through
\* "async with self.lock" and the session breaks out of its loop.
Retry(s) ==
    IF attempt[s] + 1 < Attempts
    THEN /\ attempt' = [attempt EXCEPT ![s] = @ + 1]
         /\ pc' = [pc EXCEPT ![s] = connect(openedOn(link', conn', inbuf'))]
         /\ using' = connected(link', conn', inbuf')
         /\ UNCHANGED <<lock, arrived, outcome>>
    ELSE /\ pc' = [pc EXCEPT ![s] = next_step(FALSE)]
         /\ using' = NoConn
         /\ lock' = NoSession
         /\ arrived' = Leave(s)
         /\ outcome' = [outcome EXCEPT ![s] = "failure"]
         /\ UNCHANGED attempt

\* An except branch that forgets "await self.close()": the link stays as it
\* is and the next attempt, or the next caller, finds it opened.
Fail_without_close(s) ==
    /\ failedOn' = failedOn \cup ({link, using} \ {NoConn})
    /\ UNCHANGED <<link, conn, call_close, pending, inbuf>>
    /\ Retry(s)

\* "except Exception: ... await self.close()": with a writer set, close()
\* calls writer.close() and suspends in wait_closed(); with none it returns
\* at once.  failedOn records the connections the attempt failed on: the one
\* the link holds and the one connect() gave the attempt.
Fail(s) ==
    /\ failedOn' = failedOn \cup ({link, using} \ {NoConn})
    /\ IF link # NoConn
       THEN /\ CloseWriter(link)
            /\ call_close' = link
            /\ pc' = [pc EXCEPT ![s] = "closing"]
            /\ UNCHANGED <<link, using, lock, arrived, attempt, outcome>>
       ELSE /\ UNCHANGED <<link, conn, call_close, pending, inbuf>>
            /\ Retry(s)

\* A lock that a caller takes whenever it is free, waiters or not.
Enter_barging(s) ==
    /\ arrived' = Append(arrived, s)
    /\ IF ~Locked
       THEN /\ lock' = s
            /\ pc' = [pc EXCEPT ![s] = connect(opened)]
            /\ using' = connected(link, conn, inbuf)
            /\ UNCHANGED waiters
       ELSE /\ waiters' = Append(waiters, s)
            /\ pc' = [pc EXCEPT ![s] = "gate"]
            /\ UNCHANGED <<lock, using>>

\* "async with self.lock" on entry: asyncio.Lock.acquire takes a free lock
\* with no waiter at once, and queues otherwise.
Enter(s) ==
    /\ arrived' = Append(arrived, s)
    /\ IF ~Locked /\ waiters = << >>
       THEN /\ lock' = s
            /\ pc' = [pc EXCEPT ![s] = connect(opened)]
            /\ using' = connected(link, conn, inbuf)
            /\ UNCHANGED waiters
       ELSE /\ waiters' = Append(waiters, s)
            /\ pc' = [pc EXCEPT ![s] = "gate"]
            /\ UNCHANGED <<lock, using>>

\* client.read() returns a whole frame with unit-ID u; the session transforms
\* it and calls write_read.
ClientRequest(s, u) ==
    /\ pc[s] = "read"
    /\ request_count[s] < MaxReq
    /\ LET tr == transform_request(u, unit_id_remapping)
       IN  /\ unit_id_remapping' = tr.map
           /\ request' = [request EXCEPT ![s] =
                  [origin |-> <<s, request_count[s] + 1>>, att |-> 0,
                   uid |-> tr.uid]]
           /\ delivered' = [delivered EXCEPT ![s] = NoFrame]
    /\ request_count' = [request_count EXCEPT ![s] = @ + 1]
    /\ attempt' = [attempt EXCEPT ![s] = 0]
    /\ upWrites' = [upWrites EXCEPT ![s] = 0]
    /\ outcome' = [outcome EXCEPT ![s] = "none"]
    /\ Enter(s)
    /\ UNCHANGED <<bridgeVars, frameVars, rtuVars, wireVars, replies, read_end, reply>>

\* The lock's first waiter is woken once the lock is free.
GateAcquire(s) ==
    /\ pc[s] = "gate"
    /\ ~Locked
    /\ waiters # << >>
    /\ Head(waiters) = s
    /\ lock' = s
    /\ waiters' = Tail(waiters)
    /\ pc' = [pc EXCEPT ![s] = connect(opened)]
    /\ using' = connected(link, conn, inbuf)
    /\ UNCHANGED <<bridgeVars, remapVars, frameVars, rtuVars, arrived, wireVars, clientVars,
                   callVars>>

\* OpenOk without the settle delay of connect().
OpenOk_no_delay(s) ==
    /\ pc[s] = "opening"
    /\ nconn < MaxConn
    /\ nconn' = nconn + 1
    /\ link' = nconn + 1
    /\ using' = nconn + 1
    /\ \E fin \in Finalizers(link) :
           /\ conn' = [conn EXCEPT ![nconn + 1] = "open",
                                   ![link] = IF fin THEN "closed" ELSE @]
           /\ pending' = Dropped(pending, link, fin)
           /\ inbuf' = Dropped(inbuf, link, fin)
    /\ pc' = [pc EXCEPT ![s] = "write"]
    /\ UNCHANGED <<bridgeVars, remapVars, frameVars, rtuVars, gateVars, call_close,
                   stop_close, settles, failedOn, clientVars, callVars>>

\* ModBus.open succeeded: self.reader, self.writer = the new connection,
\* whatever the link held.
OpenOk(s) ==
    /\ pc[s] = "opening"
    /\ nconn < MaxConn
    /\ nconn' = nconn + 1
    /\ link' = nconn + 1
    /\ using' = nconn + 1
    /\ \E fin \in Finalizers(link) :
           /\ conn' = [conn EXCEPT ![nconn + 1] = "open",
                                   ![link] = IF fin THEN "closed" ELSE @]
           /\ pending' = Dropped(pending, link, fin)
           /\ inbuf' = Dropped(inbuf, link, fin)
    /\ pc' = [pc EXCEPT ![s] =
                 IF connection_time > 0 THEN "settle" ELSE "write"]
    /\ UNCHANGED <<bridgeVars, remapVars, frameVars, rtuVars, gateVars, call_close,
                   stop_close, settles, failedOn, clientVars, callVars>>

\* open() raised, or wait_for timed it out.
OpenFail(s) ==
    /\ pc[s] = "opening"
    /\ Fail(s)
    /\ UNCHANGED <<bridgeVars, remapVars, frameVars, rtuVars, waiters, stop_close, nconn, settles,
                   clientVars, upWrites, reply>>

\* asyncio.sleep(self.connection_time) is over.
Settle(s) ==
    /\ pc[s] = "settle"
    /\ settles' = [settles EXCEPT ![using] = @ + 1]
    /\ pc' = [pc EXCEPT ![s] = "write"]
    /\ UNCHANGED <<bridgeVars, remapVars, frameVars, rtuVars, gateVars, link, conn,
                   using, call_close, stop_close, nconn, pending, inbuf,
                   failedOn, clientVars, callVars>>

\* _write: writer.write(data) and drain().  On a connection the device has
\* closed the bytes leave but no device receives them.
WriteOk(s) ==
    /\ pc[s] = "write"
    /\ link # NoConn
    /\ conn[link] \in {"open", "eof"}
    /\ pending' = [pending EXCEPT ![link] =
                      IF conn[link] = "open"
                      THEN Append(@, [request[s] EXCEPT !.att = attempt[s]])
                      ELSE @]
    /\ upWrites' = [upWrites EXCEPT ![s] = @ + 1]
    /\ pc' = [pc EXCEPT ![s] = "readup"]
    /\ UNCHANGED <<bridgeVars, remapVars, frameVars, rtuVars, gateVars, link, conn, using,
                   call_close, stop_close, nconn, settles, inbuf, failedOn, clientVars,
                   attempt, reply, outcome>>

\* _write raised (no writer, connection lost), or the timeout expired.
WriteFail(s) ==
    /\ pc[s] = "write"
    /\ Fail(s)
    /\ UNCHANGED <<bridgeVars, remapVars, frameVars, rtuVars, waiters, stop_close, nconn, settles,
                   clientVars, upWrites, reply>>

\* A write_read that returns the reply without leaving "async with self.lock".
ReadOk_holding(s) ==
    /\ pc[s] = "readup"
    /\ link # NoConn
    /\ conn[link] \in {"open", "eof"}
    /\ inbuf[link] # << >>
    /\ reply' = [reply EXCEPT ![s] = Head(inbuf[link])]
    /\ inbuf' = [inbuf EXCEPT ![link] = Tail(@)]
    /\ arrived' = Leave(s)
    /\ using' = NoConn
    /\ outcome' = [outcome EXCEPT ![s] = "reply"]
    /\ pc' = [pc EXCEPT ![s] = next_step(TRUE)]
    /\ UNCHANGED <<bridgeVars, remapVars, frameVars, rtuVars, lock, waiters, link, conn,
                   call_close, stop_close, nconn, settles, pending, failedOn,
                   clientVars, attempt, upWrites>>

\* _read returned one frame; write_read returns it and releases the lock.
ReadOk(s) ==
    /\ pc[s] = "readup"
    /\ link # NoConn
    /\ conn[link] \in {"open", "eof"}
    /\ inbuf[link] # << >>
    /\ reply' = [reply EXCEPT ![s] = Head(inbuf[link])]
    /\ inbuf' = [inbuf EXCEPT ![link] = Tail(@)]
    /\ lock' = NoSession
    /\ arrived' = Leave(s)
    /\ using' = NoConn
    /\ outcome' = [outcome EXCEPT ![s] = "reply"]
    /\ pc' = [pc EXCEPT ![s] = next_step(TRUE)]
    /\ UNCHANGED <<bridgeVars, remapVars, frameVars, rtuVars, waiters, link, conn, call_close,
                   stop_close, nconn, settles, pending, failedOn, clientVars, attempt,
                   upWrites>>

\* _read raised (EOF, reset, no reader), or the timeout expired.
ReadFail(s) ==
    /\ pc[s] = "readup"
    /\ Fail(s)
    /\ UNCHANGED <<bridgeVars, remapVars, frameVars, rtuVars, waiters, stop_close, nconn, settles,
                   clientVars, upWrites, reply>>

\* Connection c is lost and its wait_closed() future is set: every close()
\* that awaits it resumes in the same pass of the event loop and runs
\* "finally: self.reader = None; self.writer = None", whatever the link holds
\* by now.  The close() of stop() returns; the one of write_read goes on to
\* the next attempt or to the return of None.
CloseDone(c) ==
    /\ conn[c] = "closing"
    /\ \E fin \in Finalizers(link) :
           /\ conn' = [conn EXCEPT ![c] = "closed",
                                   ![link] = IF fin THEN "closed" ELSE @]
           /\ pending' = Dropped(pending, link, fin)
           /\ inbuf' = Dropped(inbuf, link, fin)
    /\ link' = NoConn
    /\ IF stop_close = c
       THEN /\ stop' = "returned"
            /\ stop_close' = NoConn
       ELSE UNCHANGED <<stop, stop_close>>
    /\ IF call_close = c
       THEN /\ call_close' = NoConn
            /\ Retry(lock)
       ELSE UNCHANGED <<call_close, using, lock, arrived, pc, attempt,
                        outcome>>
    /\ UNCHANGED <<config, connection_time, server, remapVars, frameVars, rtuVars,
                   waiters, nconn, settles, failedOn, clientVars, upWrites, reply>>

\* --------------------------------------------------------- client side

\* client.write(self._transform_reply(reply)) succeeded.
ClientWriteOk(s) ==
    /\ pc[s] = "reply"
    /\ delivered' = [delivered EXCEPT ![s] =
           [reply[s] EXCEPT !.uid = transform_reply(@, unit_id_remapping)]]
    /\ replies' = [replies EXCEPT ![s] = @ + 1]
    /\ reply' = [reply EXCEPT ![s] = NoFrame]
    /\ pc' = [pc EXCEPT ![s] = "read"]
    /\ UNCHANGED <<bridgeVars, remapVars, frameVars, rtuVars, gateVars, linkVars,
                   request_count, request, read_end, attempt, upWrites,
                   outcome>>

\* A client.write whose failure resets the upstream link as well.
ClientWriteFail_dropping_link(s) ==
    /\ pc[s] = "reply"
    /\ reply' = [reply EXCEPT ![s] = NoFrame]
    /\ pc' = [pc EXCEPT ![s] = "done"]
    /\ link' = NoConn
    /\ UNCHANGED <<bridgeVars, remapVars, frameVars, rtuVars, gateVars, conn,
                   using, call_close, stop_close, nconn, settles, pending,
                   inbuf, failedOn, clientVars, attempt, upWrites, outcome>>

\* client.write failed: Connection.write closes the client, the loop breaks.
ClientWriteFail(s) ==
    /\ pc[s] = "reply"
    /\ reply' = [reply EXCEPT ![s] = NoFrame]
    /\ pc' = [pc EXCEPT ![s] = "done"]
    /\ UNCHANGED <<bridgeVars, remapVars, frameVars, rtuVars, gateVars, linkVars, clientVars,
                   attempt, upWrites, outcome>>

\* Where the end of the client's stream can meet Client._read: before any
\* byte of a frame ("eof"), inside the 6 bytes of the header ("header", 3 of
\* 6 bytes) or, the header read, inside the body ("body").
ReadEnds == {"eof", "header", "body"}

\* A handle_client that goes on reading after a read that returned nothing.
ClientClose_continue(s, e) ==
    /\ pc[s] = "read"
    /\ read_end' = [read_end EXCEPT ![s] = e]
    /\ pc' = [pc EXCEPT ![s] = "read"]
    /\ UNCHANGED <<bridgeVars, remapVars, frameVars, rtuVars, gateVars, linkVars,
                   request_count, request, delivered, replies, callVars>>

\* client.read() met the end of the stream: readexactly raises
\* IncompleteReadError in Client._read, before request_count is counted up;
\* Connection.read logs it, closes the client and returns None, and the loop
\* breaks.
ClientClose(s, e) ==
    /\ pc[s] = "read"
    /\ read_end' = [read_end EXCEPT ![s] = e]
    /\ pc' = [pc EXCEPT ![s] = "done"]
    /\ UNCHANGED <<bridgeVars, remapVars, frameVars, rtuVars, gateVars, linkVars,
                   request_count, request, delivered, replies, callVars>>

\* ------------------------------------------------------------ the device

\* The device answers the oldest request it received on connection c.
DeviceReply(c) ==
    /\ conn[c] = "open"
    /\ pending[c] # << >>
    /\ inbuf' = [inbuf EXCEPT ![c] = Append(@, Head(pending[c]))]
    /\ pending' = [pending EXCEPT ![c] = Tail(@)]
    /\ UNCHANGED <<bridgeVars, remapVars, frameVars, rtuVars, gateVars, link, conn, using,
                   call_close, stop_close, nconn, settles, failedOn, pc, clientVars,
                   callVars>>

\* The device closes connection c: the stream reader is fed EOF.
DeviceClose(c) ==
    /\ conn[c] = "open"
    /\ conn' = [conn EXCEPT ![c] = "eof"]
    /\ pending' = [pending EXCEPT ![c] = << >>]
    /\ UNCHANGED <<bridgeVars, remapVars, frameVars, rtuVars, gateVars, link, using, call_close,
                   stop_close, nconn, settles, inbuf, failedOn, pc, clientVars,
                   callVars>>

\* ------------------------------------------------------------------ stop

\* stop(): self.server.close(), then "await self.server.wait_closed()".
StopCall ==
    /\ server = "serving"
    /\ stop = "idle"
    /\ server' = "closed"
    /\ stop' = "wait_closed"
    /\ UNCHANGED <<config, connection_time, remapVars, frameVars, rtuVars, gateVars, linkVars,
                   pc, clientVars, callVars>>

\* wait_closed() returned and stop() runs self.close(), outside the lock.
\* Up to Python 3.11 Server.wait_closed returns at once after close(); from
\* 3.12 on it returns when the last client connection is gone.  Both are
\* runs of this action.
StopClose ==
    /\ stop = "wait_closed"
    /\ IF link # NoConn
       THEN /\ CloseWriter(link)
            /\ stop' = "closing"
            /\ stop_close' = link
       ELSE /\ stop' = "returned"
            /\ UNCHANGED <<conn, stop_close, pending, inbuf>>
    /\ UNCHANGED <<config, connection_time, server, remapVars, frameVars, rtuVars, gateVars,
                   link, using, call_close, nconn, settles, failedOn, pc, clientVars,
                   callVars>>

\* ------------------------------------------------------------------ Next

Next ==
    \/ Start
    \/ \E s \in Sessions : Accept(s)
    \/ \E s \in Sessions, u \in UnitIds : ClientRequest(s, u)
    \/ \E s \in Sessions : GateAcquire(s)
    \/ \E s \in Sessions : OpenOk(s)
    \/ \E s \in Sessions : OpenFail(s)
    \/ \E s \in Sessions : Settle(s)
    \/ \E s \in Sessions : WriteOk(s)
    \/ \E s \in Sessions : WriteFail(s)
    \/ \E s \in Sessions : ReadOk(s)
    \/ \E s \in Sessions : ReadFail(s)
    \/ \E c \in Conns : CloseDone(c)
    \/ \E s \in Sessions : ClientWriteOk(s)
    \/ \E s \in Sessions : ClientWriteFail(s)
    \/ \E s \in Sessions, e \in ReadEnds : ClientClose(s, e)
    \/ \E c \in Conns : DeviceReply(c)
    \/ \E c \in Conns : DeviceClose(c)
    \/ StopCall
    \/ StopClose

Spec == Init /\ [][Next]_vars

\* ------------------------------------------------ the frames of a session

sessionVars == <<bridgeVars, gateVars, linkVars, pc, clientVars, callVars>>

\* handle_client on the bytes: client.read() returns frame f and
\* self._transform_request(request) is handed to write_read.
FrameRequest(f) ==
    /\ LET tr == transform_request_frame(f, unit_id_remapping)
       IN  /\ unit_id_remapping' = tr.map
           /\ upstream_request' = tr.frame
    /\ client_request' = f
    /\ device_reply' = NoBytes
    /\ client_reply' = NoBytes
    /\ UNCHANGED <<sessionVars, rtuVars>>

\* write_read returns the device's frame r and self._transform_reply(reply)
\* is handed to client.write.  The device answers with the transaction-ID of
\* the request; its unit-ID and PDU are its own.
FrameReply(r) ==
    /\ upstream_request # NoBytes
    /\ device_reply = NoBytes
    /\ r[2] = upstream_request[2]
    /\ device_reply' = r
    /\ client_reply' = transform_reply_frame(r, unit_id_remapping)
    /\ UNCHANGED <<sessionVars, rtuVars, unit_id_remapping, client_request,
                   upstream_request>>

FrameNext ==
    \/ \E f \in Frames : FrameRequest(f)
    \/ \E r \in Frames : FrameReply(r)

FrameSpec == Init /\ [][FrameNext]_vars

\* ------------------------------------------------- RTU upstream, bytes

\* The byte streams a serial device may send: slave-ID, function code, body
\* and two CRC bytes, whole frames and truncated ones.  0x03 (as a request
\* echo and as a response with a byte count), 0x06, 0x10 with a byte count,
\* 0x2B and 0x41 (neither in the if/elif chain of _read_rtu nor an exception
\* code), 0x83 (exception reply).
RtuSlaves == {17, 34}
RtuCrc == <<200, 201>>
RtuTails ==
    { <<3, 0, 0, 0, 1>> \o RtuCrc,
      <<3, 2, 0, 5>> \o RtuCrc,
      <<6, 0, 1, 0, 5>> \o RtuCrc,
      <<16, 0, 0, 0, 1, 2, 0, 5>> \o RtuCrc,
      <<16, 0, 0, 0, 1, 2>>,
      <<43, 14, 1>> \o RtuCrc,
      <<43>> \o RtuCrc,
      <<65>> \o RtuCrc,
      <<131, 2>> \o RtuCrc,
      <<3, 0>>,
      << >> }
RtuStreams == { <<sl>> \o tl : sl \in RtuSlaves, tl \in RtuTails }

\* The number of bytes _read_rtu reads for the stream b before it returns:
\* slave-ID and function code, the data its if/elif chain reads for that
\* function code (nothing for a code in no branch), and the CRC.
rtu_frame_len(b) ==
    IF b[2] \in {1, 2, 3, 4} THEN 2 + 4 + 2
    ELSE IF b[2] \in {5, 6} THEN 2 + 4 + 2
    ELSE IF b[2] \in {15, 16}
         THEN IF Len(b) >= 7 THEN 2 + 4 + 1 + b[7] + 2 ELSE 7
    ELSE 2 + 2

\* Connection._read_rtu on the buffered bytes b: every readexactly returns
\* (done), with the frame and the bytes left in the reader, or one of them
\* waits for more bytes.
read_rtu(b) ==
    IF Len(b) >= 2 /\ Len(b) >= rtu_frame_len(b)
       /\ (b[2] \in {15, 16} => Len(b) >= 7)
    THEN [done |-> TRUE,
          frame |-> SubSeq(b, 1, rtu_frame_len(b)),
          rest |-> SubSeq(b, rtu_frame_len(b) + 1, Len(b))]
    ELSE [done |-> FALSE, frame |-> NoBytes, rest |-> b]

\* ModBus.open, RTU branch: serial_asyncio.open_serial_connection.
RtuOpen ==
    /\ ~serial_open
    /\ serial_open' = TRUE
    /\ serial_reader' = NoBytes
    /\ UNCHANGED <<function_code, rtu_error, rtu_reply>>
    /\ UNCHANGED <<sessionVars, remapVars, frameVars>>

\* The device's bytes reach the serial reader.
RtuDeviceSend(b) ==
    /\ serial_open
    /\ serial_reader = NoBytes
    /\ serial_reader' = b
    /\ UNCHANGED <<serial_open, function_code, rtu_error, rtu_reply>>
    /\ UNCHANGED <<sessionVars, remapVars, frameVars>>

\* _write_read: _read_rtu returns a frame, and write_read returns it.
RtuRead ==
    /\ serial_open
    /\ read_rtu(serial_reader).done
    /\ function_code' = serial_reader[2]
    /\ rtu_reply' = read_rtu(serial_reader).frame
    /\ serial_reader' = read_rtu(serial_reader).rest
    /\ rtu_error' = "none"
    /\ UNCHANGED serial_open
    /\ UNCHANGED <<sessionVars, remapVars, frameVars>>

\* _read_rtu waits in a readexactly for bytes that do not come and wait_for
\* times the attempt out: write_read logs the error and awaits close().
RtuTimeout ==
    /\ serial_open
    /\ ~read_rtu(serial_reader).done
    /\ function_code' = IF Len(serial_reader) >= 2 THEN serial_reader[2] ELSE 0
    /\ rtu_reply' = NoBytes
    /\ rtu_error' = "TimeoutError"
    /\ serial_open' = FALSE
    /\ serial_reader' = NoBytes
    /\ UNCHANGED <<sessionVars, remapVars, frameVars>>

RtuNext ==
    \/ RtuOpen
    \/ \E b \in RtuStreams : RtuDeviceSend(b)
    \/ RtuRead
    \/ RtuTimeout

RtuSpec == Init /\ [][RtuNext]_vars

\* A step of session s inside write_read: the lock's wake-up, or the end of
\* the await the session is suspended in (connect, settle delay, write, read),
\* by completion, by failure or by timeout.
CallStep(s) ==
    \/ GateAcquire(s)
    \/ OpenOk(s)
    \/ OpenFail(s)
    \/ Settle(s)
    \/ WriteOk(s)
    \/ WriteFail(s)
    \/ ReadOk(s)
    \/ ReadFail(s)

\* The event loop runs every task that is ready, every upstream connect,
\* write and read ends (it completes, fails or times out), and a connection
\* that is being closed gets closed.
FairSpec ==
    /\ Spec
    /\ \A s \in Sessions : WF_vars(CallStep(s))
    /\ \A c \in Conns : WF_vars(CloseDone(c))

\* =================================================================
\* Properties
\* =================================================================

InBody(s) == pc[s] \in Body

\* The client's socket is open from accept until handle_client leaves
\* "async with Client(reader, writer)".
ClientOpen(s) == pc[s] \notin {"idle", "done"}

\* -----------------------------------------------------------------
\* C1 (mutual exclusion): at most one session executes the body of
\* write_read, and it is the holder of the lock; on the connection in use at
\* most one frame is outstanding (a request the device has not answered, or a
\* reply not yet read), and only while the session that wrote that request is
\* waiting for its reply.  So a request is written upstream only after the
\* read of the one before it completed or its attempt failed: the upstream
\* sees request, reply, request, reply.
Outstanding(c) == Len(pending[c]) + Len(inbuf[c])

C1_MutualExclusion ==
    /\ \A s, t \in Sessions : InBody(s) /\ InBody(t) => s = t
    /\ \A s \in Sessions : InBody(s) => lock = s
    /\ link # NoConn /\ Outstanding(link) > 0 =>
           /\ Outstanding(link) = 1
           /\ \E s \in Sessions :
                  /\ pc[s] = "readup"
                  /\ \A i \in 1..Len(pending[link]) :
                         pending[link][i].origin = request[s].origin
                  /\ \A i \in 1..Len(inbuf[link]) :
                         inbuf[link][i].origin = request[s].origin

\* One session waits for its reply from the device while another one queues
\* at the lock.
C1_Witness ==
    \E s, t \in Sessions :
        /\ pc[s] = "readup"
        /\ pc[t] = "gate"
        /\ link # NoConn
        /\ pending[link] # << >>

\* -----------------------------------------------------------------
\* C2 (pairing, no cross-talk): the frame write_read returns to a session is
\* the device's answer to that session's current request, the k-th frame
\* written to a client answers the k-th request that client sent, and no
\* client is written more replies than it sent requests; also after failed
\* attempts of earlier transactions.
C2_Pairing ==
    \A s \in Sessions :
        /\ pc[s] = "reply" =>
               /\ reply[s].origin = <<s, request_count[s]>>
               /\ replies[s] = request_count[s] - 1
        /\ delivered[s] # NoFrame =>
               /\ delivered[s].origin = <<s, request_count[s]>>
               /\ replies[s] = request_count[s]
        /\ replies[s] <= request_count[s]

\* A client has its second reply, the other client has been served too, and
\* an attempt failed on the way.
C2_Witness ==
    \E s, t \in Sessions :
        /\ s # t
        /\ delivered[s] # NoFrame
        /\ replies[s] = 2
        /\ replies[t] >= 1
        /\ failedOn # {}

\* -----------------------------------------------------------------
\* C3 (remap invertibility): with an injective configured map, in every
\* reachable state and for every unit-ID u, _transform_reply applied to the
\* unit-ID that _transform_request forwards for u gives u again.
RoundTrip(u, m) ==
    LET tr == transform_request(u, m)
    IN  transform_reply(tr.uid, tr.map)

C3_RemapInvertible ==
    Injective(config) =>
        \A u \in UnitIds : RoundTrip(u, unit_id_remapping) = u

\* -----------------------------------------------------------------
\* C4 (config refusal): with a non-injective configured map no bridge comes
\* to exist: the listener is never bound and no request is forwarded.
C4_ConfigRefusal ==
    ~Injective(config) =>
        /\ server = "none"
        /\ \A s \in Sessions : request_count[s] = 0 /\ upWrites[s] = 0

\* -----------------------------------------------------------------
\* C5 (close on failure): every connection an attempt of write_read failed
\* on (the one the link held, the one connect() gave the attempt) is closed,
\* or being closed by close(), from that failure on; the link's field still
\* names such a connection only while the failing session, holding the lock,
\* finishes close(), so it is back to not-connected before the next attempt
\* starts or write_read returns.
C5_CloseOnFailure ==
    /\ \A c \in failedOn : conn[c] \in {"closing", "closed"}
    /\ link \in failedOn => \E s \in Sessions : lock = s /\ pc[s] = "closing"

\* -----------------------------------------------------------------
\* C6 (no error crosses the gate): a write_read call ends with a reply or
\* with Failure and in no other way; it makes at most Attempts attempts, each
\* with at most one upstream write; Failure is returned only when the last
\* attempt has failed; the lock is held exactly while a session is inside
\* the body, so it is released on every return path.
C6_NoErrorAcrossGate ==
    \A s \in Sessions :
        /\ lock = s <=> InBody(s)
        /\ attempt[s] < Attempts
        /\ upWrites[s] <= attempt[s] + 1
        /\ InBody(s) \/ pc[s] = "gate" => outcome[s] = "none"
        /\ request_count[s] > 0 /\ ~InBody(s) /\ pc[s] # "gate" =>
               outcome[s] \in {"reply", "failure"}
        /\ outcome[s] = "failure" => attempt[s] = Attempts - 1
        /\ pc[s] = "reply" => outcome[s] = "reply" /\ reply[s] # NoFrame

\* A call returned Failure after two attempts that both wrote the request,
\* and the lock is free again.
C6_Witness ==
    \E s \in Sessions :
        /\ outcome[s] = "failure"
        /\ upWrites[s] = Attempts
        /\ lock = NoSession

\* -----------------------------------------------------------------
\* C7 (exhausted attempts end the session silently): when write_read
\* returned Failure the session is over, its client socket is closed, and
\* nothing was written to the client for that request.
C7_SilentTermination ==
    \A s \in Sessions :
        outcome[s] = "failure" =>
            /\ pc[s] = "done"
            /\ ~ClientOpen(s)
            /\ reply[s] = NoFrame
            /\ delivered[s] = NoFrame
            /\ replies[s] = request_count[s] - 1

\* A session whose first request was answered ends on the failure of its
\* second one.
C7_Witness ==
    \E s \in Sessions :
        /\ outcome[s] = "failure"
        /\ request_count[s] = 2
        /\ replies[s] = 1

\* -----------------------------------------------------------------
\* C8 (no leak on stop): once stop() has returned, every accepted client
\* socket and every upstream connection opened is closed.
C8_NoLeakOnStop ==
    stop = "returned" =>
        /\ \A s \in Sessions : ~ClientOpen(s)
        /\ \A c \in Conns : conn[c] \in {"unused", "closed"}

\* -----------------------------------------------------------------
\* C9 (stop does not abort an in-flight transaction): while a session is
\* between its upstream write and the end of its upstream read, the
\* connection it wrote on stays the link's and is not closed by the bridge;
\* stop() does not close it underneath the session.
C9_StopSparesInFlight ==
    \A s \in Sessions :
        pc[s] = "readup" => link # NoConn /\ conn[link] \in {"open", "eof"}

\* -----------------------------------------------------------------
\* C10 (transient upstream failure is hidden): when the first attempt of a
\* request failed after the request was written and the second attempt got a
\* reply, the frame written to the client is the device's answer to the
\* second attempt's write of that very request, it is the only reply for the
\* request, and the session goes back to reading its client.
C10_TransientHidden ==
    [][\A s \in Sessions :
           (/\ pc[s] = "reply"
            /\ attempt[s] = 1
            /\ upWrites[s] = 2
            /\ replies'[s] # replies[s]) =>
               /\ replies[s] = request_count[s] - 1
               /\ replies'[s] = request_count[s]
               /\ delivered'[s].origin = <<s, request_count[s]>>
               /\ delivered'[s].att = 1
               /\ pc'[s] = "read"]_vars

\* A client has its reply from a second attempt, after a first attempt that
\* had written the request, and the session reads on.
C10_Witness ==
    \E s \in Sessions :
        /\ pc[s] = "read"
        /\ delivered[s] # NoFrame
        /\ attempt[s] = 1
        /\ upWrites[s] = 2

\* -----------------------------------------------------------------
\* C11 (FIFO gate order): of the sessions inside write_read only the one
\* that called it first is past the lock and writes upstream; every session
\* that arrived later waits at the lock and has written nothing upstream, and
\* the lock's queue is those later arrivals in their order of arrival.  So
\* requests are written upstream in the order their sessions arrived.
C11_FifoGateOrder ==
    /\ \A s \in Sessions :
           pc[s] \in Body => arrived # << >> /\ Head(arrived) = s
    /\ \A i \in 2..Len(arrived) :
           pc[arrived[i]] = "gate" /\ upWrites[arrived[i]] = 0
    /\ \A i \in 1..Len(waiters) :
           waiters[i] = arrived[Len(arrived) - Len(waiters) + i]

\* A session waits for the device's reply to its first request while a
\* session that was served before has arrived again and queues behind it.
C11_Witness ==
    \E s, t \in Sessions :
        /\ arrived = <<s, t>>
        /\ pc[s] = "readup"
        /\ request_count[s] = 1
        /\ replies[t] = 1
        /\ request_count[t] = 2

\* -----------------------------------------------------------------
\* C12 (no starvation): when every upstream connect, write and read ends
\* (FairSpec), a session that has called write_read, whether it waits at the
\* lock or is in the body, eventually is out of write_read again: it got the
\* lock and its call returned, whatever the other sessions and stop() do.
InCall(s) == pc[s] = "gate" \/ InBody(s)

C12_NoStarvation == \A s \in Sessions : InCall(s) ~> ~InCall(s)

\* A session waits at the lock, and the lock has just been released by a
\* call that ended in Failure: the waiter is the next to get it.
C12_Witness ==
    \E s, t \in Sessions :
        /\ pc[s] = "gate"
        /\ Head(waiters) = s
        /\ lock = NoSession
        /\ outcome[t] = "failure"

\* -----------------------------------------------------------------
\* C13 (transparency): with an empty configured remapping, in every state the
\* bridge reaches, the bytes handed to write_read are the bytes the client
\* sent and the bytes written to the client are the bytes the device
\* emitted, byte for byte.
C13_Transparency ==
    config = << >> =>
        /\ upstream_request = client_request
        /\ client_reply = device_reply

\* With nothing configured, a reply went to the client after requests for two
\* different unit-IDs had left their entries in the dictionary.
C13_Witness ==
    /\ config = << >>
    /\ Len(unit_id_remapping) >= 2
    /\ client_reply # NoBytes
    /\ device_reply[UnitIdIndex + 1] = client_request[UnitIdIndex + 1]

\* -----------------------------------------------------------------
\* C14 (remapping touches only the unit-ID byte): with an injective
\* remapping configured, the frame handed to write_read and the frame written
\* to the client have the length of the frame they were made from and differ
\* from it at most in byte 6; the upstream gets the unit-ID the configured
\* map gives (the client's own when the map has no entry for it), and when
\* the device answers with the unit-ID it was sent, the client gets the
\* unit-ID it sent.
SameButUnitId(f, g) ==
    /\ Len(f) = Len(g)
    /\ \A i \in 1..Len(f) : i # UnitIdIndex + 1 => f[i] = g[i]

Configured(u) == IF HasKey(config, u) THEN Lookup(config, u) ELSE u

C14_FrameEffect ==
    /\ SameButUnitId(client_request, upstream_request)
    /\ SameButUnitId(device_reply, client_reply)
    /\ client_request # NoBytes =>
           upstream_request[UnitIdIndex + 1] =
               Configured(client_request[UnitIdIndex + 1])

C14_UnitIdOnly ==
    Injective(config) =>
        /\ C14_FrameEffect
        /\ (/\ client_reply # NoBytes
            /\ device_reply[UnitIdIndex + 1] = upstream_request[UnitIdIndex + 1])
               => client_reply[UnitIdIndex + 1] = client_request[UnitIdIndex + 1]

\* -----------------------------------------------------------------
\* C15 (short client frame): the step in which a session's read of its client
\* meets the end of the stream, with part of a frame consumed or with
\* nothing, ends the session and closes its client; it calls no write_read
\* (the lock, its queue and the sessions inside write_read are as before),
\* counts no request and leaves the upstream link and what was written on it
\* as they were.  A session ended this way stays ended and is never at the
\* lock or in the body.
C15_ShortFrame ==
    /\ [](\A s \in Sessions :
             read_end[s] # "none" =>
                 /\ pc[s] = "done"
                 /\ ~ClientOpen(s)
                 /\ ~InCall(s)
                 /\ lock # s
                 /\ \A i \in 1..Len(arrived) : arrived[i] # s)
    /\ [][\A s \in Sessions :
             read_end'[s] # read_end[s] =>
                 /\ read_end[s] = "none"
                 /\ UNCHANGED <<gateVars, linkVars, callVars, request_count,
                                request>>]_vars

\* A client that had one request answered closes inside the header of its
\* next frame, while another session waits for the device.
C15_Witness ==
    \E s, t \in Sessions :
        /\ read_end[s] = "header"
        /\ request_count[s] = 1
        /\ replies[s] = 1
        /\ pc[t] = "readup"

\* -----------------------------------------------------------------
\* C16 (reconnect idempotence): whenever a write_read returns a reply, after
\* whatever failures came before, the link is as after the first reply of a
\* fresh bridge: it holds a connection, no other upstream connection is open
\* or half-open (every other one that was opened has been closed), and the
\* lock is free.
Unclosed(c) == conn[c] \in {"open", "eof"}

C16_ReconnectIdempotence ==
    [][\A s \in Sessions :
           outcome[s] = "none" /\ outcome'[s] = "reply" =>
               /\ link' # NoConn
               /\ lock' = NoSession
               /\ \A c \in Conns \ {link'} : ~Unclosed(c)']_vars

\* -----------------------------------------------------------------
\* C17 (the connection field is gate-protected): every step that opens,
\* closes or resets the link (the field changes, or the connection it holds
\* starts to close or gets closed) is a step of the session that holds the
\* lock, and is no step of stop().
C17_GateProtected ==
    [][(\/ link' # link
        \/ /\ link # NoConn
           /\ conn'[link] # conn[link]
           /\ conn'[link] \in {"closing", "closed"})
           => /\ stop' = stop
              /\ \E s \in Sessions : lock = s /\ pc'[s] # pc[s]]_vars

\* -----------------------------------------------------------------
\* C18 (remapper state discipline): the configured entries of the forward
\* map stay as they were at construction, whatever else the dictionary holds
\* is an identity entry for a unit-ID seen without a configured entry, and
\* every step that changes the dictionary is a step of the session that
\* holds the lock.
C18_RemapperDiscipline ==
    /\ [](/\ Len(unit_id_remapping) >= Len(config)
          /\ \A i \in 1..Len(config) : unit_id_remapping[i] = config[i]
          /\ \A i \in (Len(config) + 1)..Len(unit_id_remapping) :
                 unit_id_remapping[i][1] = unit_id_remapping[i][2])
    /\ [][unit_id_remapping' # unit_id_remapping =>
              \E s \in Sessions : lock = s /\ pc'[s] # pc[s]]_vars

\* -----------------------------------------------------------------
\* C19 (settle delay ordering): a connection is opened only when the link is
\* not opened; a session that takes the lock while the link is opened goes
\* straight to its write, with no open and no delay; no connection sees more
\* than one settle delay; and every upstream write is on a connection whose
\* settle delay has elapsed exactly once when a delay is configured (and
\* never otherwise).
C19_SettleDelay ==
    /\ [](\A c \in Conns :
              /\ settles[c] <= 1
              /\ settles[c] = 1 => connection_time > 0 /\ conn[c] # "unused")
    /\ [][/\ nconn' # nconn => ~opened /\ link' = nconn'
          /\ \A s \in Sessions :
                 /\ upWrites'[s] = upWrites[s] + 1 =>
                        /\ link # NoConn
                        /\ settles[link] = IF connection_time > 0 THEN 1 ELSE 0
                 /\ lock # s /\ lock' = s /\ opened =>
                        /\ pc'[s] = "write"
                        /\ nconn' = nconn
                        /\ settles' = settles]_vars

\* C19 witness: with a settle delay configured, a request has been written on
\* the second connection of the run, after that connection's delay.
C19_Witness ==
    /\ connection_time > 0
    /\ link = 2
    /\ settles = [c \in Conns |-> 1]
    /\ \E s \in Sessions : pc[s] = "readup" /\ Len(pending[2]) = 1

\* -----------------------------------------------------------------
\* C20 (at most one un-closed upstream connection): in every reachable state
\* at most one upstream connection has been opened and not yet closed (its
\* close neither called nor done).
C20_AtMostOneUnclosed ==
    Cardinality({c \in Conns : Unclosed(c)}) <= 1

\* -----------------------------------------------------------------
\* C21 (gate scope): a session that reads from its client, writes to its
\* client, has not started or has ended neither holds the lock nor waits for
\* it; the lock is taken only by a step that starts an upstream attempt and
\* given up only by the step that reads the upstream reply or by the step
\* that ends the last failed attempt; and whatever the other sessions do at their clients, the
\* first waiter of a free lock can take it.
ClientSide(s) == pc[s] \in {"read", "reply"}

C21_GateScope ==
    /\ [](\A s \in Sessions :
              /\ ClientSide(s) \/ ~ClientOpen(s) =>
                     /\ lock # s
                     /\ \A i \in 1..Len(waiters) : waiters[i] # s
              /\ pc[s] = "gate" /\ ~Locked /\ Head(waiters) = s
                 /\ (\A t \in Sessions \ {s} : ClientSide(t) \/ ~ClientOpen(t)) =>
                     ENABLED GateAcquire(s))
    /\ [][\A s \in Sessions :
              /\ lock # s /\ lock' = s =>
                     /\ pc[s] \in {"read", "gate"}
                     /\ pc'[s] \in {"opening", "write"}
              /\ lock = s /\ lock' # s =>
                     /\ InBody(s)
                     /\ pc'[s] \in {"reply", "done"}
                     /\ pc'[s] = "reply" <=> pc[s] = "readup" /\ outcome'[s] = "reply"
                     /\ pc'[s] = "done" <=> outcome'[s] = "failure"]_vars

\* C21 witness: one session is stalled at the writeback to its client while
\* another one, which queued behind it, holds the lock and waits for the
\* device.
C21_Witness ==
    \E s, t \in Sessions :
        /\ pc[s] = "reply"
        /\ pc[t] = "readup"
        /\ lock = t
        /\ request_count[t] = 1
        /\ link # NoConn
        /\ pending[link] # << >>

\* -----------------------------------------------------------------
\* C22 (unsupported RTU function code): when the function code the RTU
\* reader met is in none of the covered groups (0x01-0x06, 0x0F, 0x10, or
\* an exception code with the high bit set), the read raised
\* UnsupportedFunction, no frame was returned and the serial link is closed.
Covered(fc) == fc \in 1..6 \/ fc \in {15, 16} \/ fc >= 128

C22_UnsupportedFunction ==
    function_code # 0 /\ ~Covered(function_code) =>
        /\ rtu_error = "UnsupportedFunction"
        /\ rtu_reply = NoBytes
        /\ ~serial_open

\* -----------------------------------------------------------------
\* C23 (stopped stays stopped): once stop() has returned the link holds no
\* connection, no upstream connection is opened any more, and no session
\* enters write_read.
C23_StoppedStaysStopped ==
    /\ [](stop = "returned" => link = NoConn)
    /\ [][stop = "returned" =>
              /\ nconn' = nconn
              /\ \A s \in Sessions : ~InCall(s) => ~InCall(s)']_vars

\* -----------------------------------------------------------------
\* C24 (client-side termination is local): the step that ends a session at
\* its own client (the client closed, a frame ended short, or the write of
\* the reply to the client failed) leaves the upstream link, every upstream
\* connection and what is in flight on it, the lock and its queue as they
\* were, the session does not hold the lock, and every other session's
\* position, request, attempt count and replies are as before.
C24_ClientTerminationLocal ==
    [][\A s \in Sessions :
           ClientSide(s) /\ pc'[s] = "done" =>
               /\ UNCHANGED <<gateVars, linkVars>>
               /\ lock' # s
               /\ \A t \in Sessions \ {s} :
                      /\ pc'[t] = pc[t]
                      /\ request'[t] = request[t]
                      /\ request_count'[t] = request_count[t]
                      /\ attempt'[t] = attempt[t]
                      /\ upWrites'[t] = upWrites[t]
                      /\ reply'[t] = reply[t]
                      /\ outcome'[t] = outcome[t]
                      /\ delivered'[t] = delivered[t]
                      /\ replies'[t] = replies[t]]_vars

\* C24 witness: the write of a reply to its client failed and ended a
\* session, while the other session's request is with the device on the open
\* link.
C24_Witness ==
    \E s, t \in Sessions :
        /\ pc[s] = "done"
        /\ outcome[s] = "reply"
        /\ read_end[s] = "none"
        /\ replies[s] < request_count[s]
        /\ pc[t] = "readup"
        /\ link # NoConn
        /\ conn[link] = "open"
        /\ pending[link] # << >>

====
